---------------------------- MODULE Spec2Model ----------------------------
(***************************************************************************)
(* A model of the HL7 SIU parser (src/hl7_parser).                         *)
(*                                                                         *)
(* Text is a sequence of one-character strings, so that str.strip,         *)
(* str.split, slicing and startswith are computed character by character   *)
(* as the Python code computes them.  Python's None is the sentinel None,  *)
(* an optional object that is None is NoObj, and an exception raised by a  *)
(* subscript is the sentinel IndexError.                                   *)
(***************************************************************************)
EXTENDS Integers, Sequences, FiniteSets, TLC

VARIABLES
  op,            \* the operation that produced the current state
  raw,           \* raw_message handed to HL7Parser.parse_message
  message,       \* what parse_message returned or raised
  result,        \* what validate_siu_message / extract_appointment returned or raised
  content,       \* file content handed to HL7FileParser.parse_file
  raw_messages,  \* parse_file: the list returned by split_messages
  idx,           \* parse_file: the loop index i of line 414
  appointments,  \* parse_file: the list being returned
  warnings,      \* parse_file: the indices (i+1) printed by line 423
  token,         \* hl7_timestamp handed to parse_hl7_timestamp
  iso,           \* what parse_hl7_timestamp returned
  hl7_name,      \* hl7_name handed to parse_name
  name_out,      \* what parse_name returned
  segment_type_arg, \* get_field: the segment_type asked for
  field_index,     \* get_field: the field index asked for
  component_index, \* get_field: <<k>> for component_index k, <<>> for None
  field_value,     \* what get_field returned
  frames,        \* parse_siu_message: the local variables of the call each thread is in
  calls          \* the calls of parse_siu_message that returned or raised, in that order

get_field_vars == <<segment_type_arg, field_index, component_index, field_value>>

call_vars == <<frames, calls>>

vars == <<op, raw, message, result, content, raw_messages, idx, appointments,
          warnings, token, iso, hl7_name, name_out, get_field_vars, call_vars>>

-----------------------------------------------------------------------------
(* Python values *)

None == <<"None">>
NoObj == [none |-> TRUE]
NotRun == <<"NotRun">>
IndexError == <<"IndexError">>
ValueError == <<"ValueError">>

(* the two ways lines 41-54 end without a datetime *)
RaisedValueError == [raised |-> "ValueError"]
ReturnedNone == [returned |-> "None"]

(* the variables of the operations that a specification does not call *)
NotRunRec == [notrun |-> TRUE]
IdleMsg == /\ raw = NotRun /\ message = NotRunRec /\ result = NotRunRec
IdleFile == /\ content = NotRun /\ raw_messages = <<>> /\ idx = 0
            /\ appointments = <<>> /\ warnings = <<>>
IdleTs == /\ token = NotRun /\ iso = NotRun
IdleName == /\ hl7_name = NotRun /\ name_out = NotRun
IdleField == /\ segment_type_arg = NotRun /\ field_index = 0
             /\ component_index = <<>> /\ field_value = NotRun

(* the threads that call parse_siu_message *)
MaxThreads == 2
Threads == 1..MaxThreads

(* a thread that is in no call *)
IdleFrame == [pc |-> "idle", raw_message |-> NotRun, message |-> NotRunRec, began |-> 0]
IdleCalls == frames = [t \in Threads |-> IdleFrame] /\ calls = <<>>

CR == "\r"
LF == "\n"
SP == " "
TAB == "\t"

Whitespace == {SP, TAB, CR, LF}

Digits == <<"0", "1", "2", "3", "4", "5", "6", "7", "8", "9">>

IsDigit(c) == \E i \in 1..10 : Digits[i] = c

DigitVal(c) == (CHOOSE i \in 1..10 : Digits[i] = c) - 1

AllDigits(s) == \A i \in 1..Len(s) : IsDigit(s[i])

(* s[a:b] of Python, 0-based, end exclusive, clipped to the string *)
Slice(s, a, b) ==
  LET lo == IF a > Len(s) THEN Len(s) ELSE a
      hi == IF b > Len(s) THEN Len(s) ELSE b
  IN  IF hi <= lo THEN <<>> ELSE SubSeq(s, lo + 1, hi)

StartsWith(s, p) == Len(s) >= Len(p) /\ SubSeq(s, 1, Len(p)) = p

(* 1, 2, ..., n *)
Indices(n) == [i \in 1..n |-> i]

(* str.strip(): from the first to the last character that is no white space *)
Strip(s) ==
  LET kept == SelectSeq(Indices(Len(s)), LAMBDA i : s[i] \notin Whitespace)
  IN  IF kept = <<>> THEN <<>> ELSE SubSeq(s, kept[1], kept[Len(kept)])

(* the parts of s between the positions at, at[1] = 0 and the last Len(s)+1 *)
SplitAt(s, at) == [k \in 1..(Len(at) - 1) |-> SubSeq(s, at[k] + 1, at[k + 1] - 1)]

(* str.split(d) for a one-character separator d *)
Split(s, d) ==
  SplitAt(s, <<0>> \o SelectSeq(Indices(Len(s)), LAMBDA i : s[i] = d) \o <<Len(s) + 1>>)

RECURSIVE Join(_, _)
(* d.join(parts) *)
Join(parts, d) ==
  IF parts = <<>> THEN <<>>
  ELSE IF Len(parts) = 1 THEN parts[1]
  ELSE parts[1] \o d \o Join(Tail(parts), d)

(* the characters of s at the positions at *)
Pick(s, at) == [k \in 1..Len(at) |-> s[at[k]]]

(* s.replace('\r\n', '\r'): every '\n' that follows a '\r' is dropped *)
ReplaceCRLF(s) ==
  Pick(s, SelectSeq(Indices(Len(s)),
                    LAMBDA i : ~(s[i] = LF /\ i > 1 /\ s[IF i > 1 THEN i - 1 ELSE 1] = CR)))

(* s.replace('\n', '\r') *)
ReplaceLF(s) == [i \in 1..Len(s) |-> IF s[i] = LF THEN CR ELSE s[i]]

(* s.replace('\r\n', '\r').replace('\n', '\r') *)
NormalizeLineEndings(s) == ReplaceLF(ReplaceCRLF(s))

(* x[k] of Python for a 0-based k >= 0: the element, or IndexError raised *)
PyIndex(x, k) == IF k < Len(x) THEN x[k + 1] ELSE IndexError

-----------------------------------------------------------------------------
(* utils.parse_hl7_timestamp *)

Pad2(n) == <<Digits[(n \div 10) + 1], Digits[(n % 10) + 1]>>

Pad4(n) == Pad2(n \div 100) \o Pad2(n % 100)

Num2(s, at) == DigitVal(s[at]) * 10 + DigitVal(s[at + 1])

Num4(s, at) == Num2(s, at) * 100 + Num2(s, at + 2)

IsLeap(y) == (y % 4 = 0) /\ ((y % 100 # 0) \/ (y % 400 = 0))

DaysInMonth(y, m) ==
  IF m = 2 THEN (IF IsLeap(y) THEN 29 ELSE 28)
  ELSE IF m \in {4, 6, 9, 11} THEN 30 ELSE 31

(* datetime.strptime(s, fmt) for the formats of lines 42-52, where groups  *)
(* is the number of two-digit directives after %Y.  s has 4 + 2*groups     *)
(* characters and no white space; every directive then needs its full      *)
(* width, since a shorter match leaves unconverted data.  The result is    *)
(* the datetime, or the ValueError raised.                                 *)
Strptime(s, groups) ==
  IF ~AllDigits(s) THEN RaisedValueError
  ELSE
    LET y  == Num4(s, 1)
        mo == Num2(s, 5)
        d  == Num2(s, 7)
        h  == IF groups >= 3 THEN Num2(s, 9) ELSE 0
        mi == IF groups >= 4 THEN Num2(s, 11) ELSE 0
        se == IF groups >= 5 THEN Num2(s, 13) ELSE 0
    IN  IF /\ y >= 1
           /\ mo >= 1 /\ mo <= 12
           /\ d >= 1 /\ d <= DaysInMonth(y, mo)
           /\ h <= 23 /\ mi <= 59 /\ se <= 59
          THEN [year |-> y, month |-> mo, day |-> d,
                hour |-> h, minute |-> mi, second |-> se]
          ELSE RaisedValueError

(* dt.date().isoformat() *)
DateIso(dt) == Pad4(dt.year) \o <<"-">> \o Pad2(dt.month) \o <<"-">> \o Pad2(dt.day)

(* dt.isoformat() of a datetime without microseconds *)
DateTimeIso(dt) ==
  DateIso(dt) \o <<"T">> \o Pad2(dt.hour) \o <<":">> \o Pad2(dt.minute)
    \o <<":">> \o Pad2(dt.second)

(* re.search(r'([+-]\d{4})$', timestamp) on a stripped timestamp *)
TzMatch(ts) ==
  /\ Len(ts) >= 5
  /\ ts[Len(ts) - 4] \in {"+", "-"}
  /\ AllDigits(SubSeq(ts, Len(ts) - 3, Len(ts)))

(* TimestampDt with the branch of lines 43-44 lost: minutes are not read *)
TimestampDt_NoMinuteBranch(ts) ==
  LET n == Len(ts)
  IN  IF n >= 14 THEN Strptime(Slice(ts, 0, 14), 5)
      ELSE IF n >= 10 THEN Strptime(Slice(ts, 0, 10), 3)
      ELSE IF n >= 8 THEN Strptime(Slice(ts, 0, 8), 2)
      ELSE IF n >= 6 THEN Strptime(Slice(ts, 0, 6) \o <<"0", "1">>, 2)
      ELSE IF n >= 4 THEN Strptime(Slice(ts, 0, 4) \o <<"0", "1", "0", "1">>, 2)
      ELSE ReturnedNone

(* lines 41-54: the datetime parsed for a timestamp of each length, the *)
(* ValueError raised by strptime, or the return None of line 54          *)
TimestampDt(ts) ==
  LET n == Len(ts)
  IN  IF n >= 14 THEN Strptime(Slice(ts, 0, 14), 5)
      ELSE IF n >= 12 THEN Strptime(Slice(ts, 0, 12), 4)
      ELSE IF n >= 10 THEN Strptime(Slice(ts, 0, 10), 3)
      ELSE IF n >= 8 THEN Strptime(Slice(ts, 0, 8), 2)
      ELSE IF n >= 6 THEN Strptime(Slice(ts, 0, 6) \o <<"0", "1">>, 2)
      ELSE IF n >= 4 THEN Strptime(Slice(ts, 0, 4) \o <<"0", "1", "0", "1">>, 2)
      ELSE ReturnedNone

(* TimestampIso that forgets the "T00:00:00" of lines 64 and 66 *)
TimestampIso_DateOnly(n, dt) ==
  IF n >= 10 THEN DateTimeIso(dt) ELSE DateIso(dt)

(* lines 57-66: the ISO 8601 text for a timestamp of each length *)
TimestampIso(n, dt) ==
  IF n >= 10 THEN DateTimeIso(dt)
  ELSE DateIso(dt) \o <<"T", "0", "0", ":", "0", "0", ":", "0", "0">>

(* lines 69-73 *)
TzSuffix(tz) ==
  <<tz[1]>> \o Slice(tz, 1, 3) \o <<":">> \o Slice(tz, 3, 5)

(* lines 28-75, the body of the try statement included: the text, None, *)
(* or ValueError raised by strptime                                      *)
TimestampTry(hl7_timestamp) ==
  LET stripped == Strip(hl7_timestamp)
      hasTz    == TzMatch(stripped)
      tz       == IF hasTz THEN SubSeq(stripped, Len(stripped) - 4, Len(stripped))
                  ELSE None
      ts       == IF hasTz THEN SubSeq(stripped, 1, Len(stripped) - 5) ELSE stripped
      dt       == TimestampDt(ts)
  IN  IF dt = ReturnedNone THEN None
      ELSE IF dt = RaisedValueError THEN ValueError
      ELSE TimestampIso(Len(ts), dt) \o (IF hasTz THEN TzSuffix(tz) ELSE <<>>)

(* parse_hl7_timestamp without the except clause of lines 76-77 *)
ParseHl7Timestamp_NoExcept(hl7_timestamp) ==
  IF hl7_timestamp = <<>> \/ Strip(hl7_timestamp) = <<>> THEN None
  ELSE TimestampTry(hl7_timestamp)

(* parse_hl7_timestamp: lines 25-26, then the try statement and its *)
(* except ValueError clause of lines 76-77                           *)
ParseHl7Timestamp(hl7_timestamp) ==
  IF hl7_timestamp = <<>> \/ Strip(hl7_timestamp) = <<>> THEN None
  ELSE LET r == TimestampTry(hl7_timestamp)
       IN  IF r = ValueError THEN None ELSE r

-----------------------------------------------------------------------------
(* utils.parse_name and utils.safe_split *)

(* x[k] if len(x) > k else None: an empty x[k] is kept *)
Opt_KeepEmpty(x, k) == IF Len(x) > k THEN PyIndex(x, k) ELSE None

(* x[k] if len(x) > k and x[k] else None *)
Opt(x, k) == IF Len(x) > k /\ PyIndex(x, k) # <<>> THEN PyIndex(x, k) ELSE None

(* [p for p in parts if p], for parts that are texts or None *)
Present(parts) == SelectSeq(parts, LAMBDA p : p # None /\ p # <<>>)

(* ' '.join(name_parts) if name_parts else None *)
JoinName(name_parts) ==
  IF name_parts = <<>> THEN None ELSE Join(name_parts, <<SP>>)

(* parse_name with the family name put first in the full name *)
ParseName_FamilyFirst(name) ==
  IF name = <<>> THEN [last_name |-> None, first_name |-> None, full_name |-> None]
  ELSE
    LET components == Split(name, "^")
    IN  [last_name  |-> Opt(components, 0),
         first_name |-> Opt(components, 1),
         full_name  |-> JoinName(Present(<<Opt(components, 0), Opt(components, 4),
                                           Opt(components, 1), Opt(components, 2),
                                           Opt(components, 3)>>))]

(* parse_name(hl7_name): the tuple (last_name, first_name, full_name) *)
ParseName(name) ==
  IF name = <<>> THEN [last_name |-> None, first_name |-> None, full_name |-> None]
  ELSE
    LET components  == Split(name, "^")
        last_name   == Opt(components, 0)
        first_name  == Opt(components, 1)
        middle_name == Opt(components, 2)
        suffix      == Opt(components, 3)
        prefix      == Opt(components, 4)
    IN  [last_name  |-> last_name,
         first_name |-> first_name,
         full_name  |-> JoinName(Present(<<prefix, first_name, middle_name,
                                           last_name, suffix>>))]

(* safe_split(text, delimiter) *)
SafeSplit(text, delimiter) ==
  IF text = <<>> THEN <<>> ELSE Split(text, delimiter)

-----------------------------------------------------------------------------
(* parser.HL7Parser *)

MSH == <<"M", "S", "H">>
SCH == <<"S", "C", "H">>
PID == <<"P", "I", "D">>
PV1 == <<"P", "V", "1">>
SIU == <<"S", "I", "U">>

(* raise exc(text) *)
Raise(exc, text) == [raised |-> exc, text |-> text]

IsRaised(r) == "raised" \in DOMAIN r

(* 'x' in s *)
Contains(s, c) == \E i \in 1..Len(s) : s[i] = c

DefaultDelimiters(field_delimiter) ==
  [field |-> field_delimiter, component |-> "^", subcomponent |-> "&",
   repetition |-> "~", escape |-> "\\"]

(* lines 48-65: the delimiters read from the MSH segment *)
ResolveDelimiters(msh_segment) ==
  LET field_delimiter == msh_segment[4]
      delimiters      == DefaultDelimiters(field_delimiter)
      encoding_chars  == Slice(msh_segment, 5, 9)
  IN  IF Len(msh_segment) > 4 /\ msh_segment[5] = field_delimiter
           /\ Len(encoding_chars) >= 4
        THEN [delimiters EXCEPT !.component = encoding_chars[1],
                                !.repetition = encoding_chars[2],
                                !.escape = encoding_chars[3],
                                !.subcomponent = encoding_chars[4]]
        ELSE delimiters

NoSegments == [t \in {} |-> <<>>]

RECURSIVE ParseSegments_KeepLast(_, _, _)
(* lines 68-83 with the list of a segment type replaced, not appended to *)
ParseSegments_KeepLast(segments, field_delimiter, parsed_segments) ==
  IF segments = <<>> THEN parsed_segments
  ELSE IF Head(segments) = <<>>
    THEN ParseSegments_KeepLast(Tail(segments), field_delimiter, parsed_segments)
  ELSE ParseSegments_KeepLast(Tail(segments), field_delimiter,
         [t \in DOMAIN parsed_segments \cup {Slice(Head(segments), 0, 3)} |->
            IF t = Slice(Head(segments), 0, 3)
              THEN <<Split(Head(segments), field_delimiter)>>
              ELSE parsed_segments[t]])

RECURSIVE ParseSegments(_, _, _)
(* lines 68-83: the loop over the segments, parsed_segments accumulated *)
ParseSegments(segments, field_delimiter, parsed_segments) ==
  IF segments = <<>> THEN parsed_segments
  ELSE
    LET segment      == Head(segments)
        segment_type == Slice(segment, 0, 3)
        fields       == Split(segment, field_delimiter)
    IN  IF segment = <<>>
          THEN ParseSegments(Tail(segments), field_delimiter, parsed_segments)
        ELSE IF segment_type \in DOMAIN parsed_segments
          THEN ParseSegments(Tail(segments), field_delimiter,
                 [parsed_segments EXCEPT ![segment_type] = Append(@, fields)])
        ELSE ParseSegments(Tail(segments), field_delimiter,
               [t \in DOMAIN parsed_segments \cup {segment_type} |->
                  IF t = segment_type THEN <<fields>> ELSE parsed_segments[t]])

(* lines 36-89 without the test of lines 40-41 *)
ParseLines_NoTagTest(raw_message, segments) ==
  IF segments = <<>>
    THEN Raise("InvalidMessageError", "No segments found")
  ELSE IF Len(segments[1]) < 4
    THEN Raise("InvalidMessageError", "Invalid MSH segment")
  ELSE
    [raw_message |-> raw_message,
     segments    |-> ParseSegments(segments, ResolveDelimiters(segments[1]).field,
                                   NoSegments),
     delimiters  |-> ResolveDelimiters(segments[1])]

(* lines 36-89, given the segments of line 35 *)
ParseLines(raw_message, segments) ==
  IF segments = <<>>
    THEN Raise("InvalidMessageError", "No segments found")
  ELSE IF ~StartsWith(segments[1], MSH)
    THEN Raise("InvalidMessageError", "Message must start with MSH segment")
  ELSE IF Len(segments[1]) < 4
    THEN Raise("InvalidMessageError", "Invalid MSH segment")
  ELSE
    [raw_message |-> raw_message,
     segments    |-> ParseSegments(segments, ResolveDelimiters(segments[1]).field,
                                   NoSegments),
     delimiters  |-> ResolveDelimiters(segments[1])]

(* parse_message(raw_message): the HL7Message, or the exception raised *)
ParseMessage(raw_message) ==
  IF raw_message = <<>> \/ Strip(raw_message) = <<>>
    THEN Raise("InvalidMessageError", "Empty message")
    ELSE CHOOSE r \in { ParseLines(raw_message, segments) :
                          segments \in {Split(Strip(NormalizeLineEndings(raw_message)), CR)} } :
           TRUE

(* lines 116-120: msg_type *)
MsgType(message_type) ==
  IF Contains(message_type, "^") THEN Split(message_type, "^")[1] ELSE message_type

(* validate_siu_message(message): True, or the exception raised *)
ValidateSiuMessage(m) ==
  IF MSH \notin DOMAIN m.segments
    THEN Raise("InvalidMessageError", "MSH segment missing")
  ELSE
    LET msh_fields == m.segments[MSH][1]
    IN  IF m.segments[MSH] = <<>> THEN Raise("IndexError", "list index out of range")
        ELSE IF Len(msh_fields) <= 8
          THEN Raise("InvalidMessageError", "MSH segment missing message type field")
        ELSE IF MsgType(msh_fields[9]) # SIU
          THEN Raise("InvalidMessageError", "Expected SIU message type")
        ELSE [returned |-> TRUE]

(* x[k] read without the len(x) > k test before it *)
HasField_NoLengthTest(x, k) == PyIndex(x, k) # <<>>

(* len(x) > k and x[k] *)
HasField(x, k) == Len(x) > k /\ PyIndex(x, k) # <<>>

(* lines 149-151: appointment_id *)
SchAppointmentId(sch_fields) ==
  IF HasField(sch_fields, 1) THEN PyIndex(sch_fields, 1) ELSE None

RECURSIVE FirstDateLike(_)
(* lines 175-181: the first component that looks like a date and parses *)
FirstDateLike(components) ==
  IF components = <<>> THEN None
  ELSE
    LET component == Head(components)
        parsed_dt == ParseHl7Timestamp(component)
    IN  IF component # <<>> /\ Len(component) >= 8 /\ parsed_dt # None
          THEN parsed_dt
          ELSE FirstDateLike(Tail(components))

(* lines 156-181 with SCH.2 tried before SCH.11 *)
SchDatetime_Sch2First(sch_fields, cd) ==
  LET c11 == IF HasField(sch_fields, 11) THEN SafeSplit(PyIndex(sch_fields, 11), cd)
             ELSE <<>>
      c2  == IF HasField(sch_fields, 2) THEN SafeSplit(PyIndex(sch_fields, 2), cd)
             ELSE <<>>
  IN  IF HasField(sch_fields, 2) /\ HasField(c2, 3)
        THEN ParseHl7Timestamp(PyIndex(c2, 3))
      ELSE IF HasField(sch_fields, 11) /\ HasField(c11, 3)
        THEN ParseHl7Timestamp(PyIndex(c11, 3))
      ELSE IF HasField(sch_fields, 2) THEN FirstDateLike(c2)
      ELSE None

(* lines 156-181: appointment_datetime *)
SchDatetime(sch_fields, cd) ==
  LET c11 == IF HasField(sch_fields, 11) THEN SafeSplit(PyIndex(sch_fields, 11), cd)
             ELSE <<>>
      c2  == IF HasField(sch_fields, 2) THEN SafeSplit(PyIndex(sch_fields, 2), cd)
             ELSE <<>>
  IN  IF HasField(sch_fields, 11) /\ HasField(c11, 3)
        THEN ParseHl7Timestamp(PyIndex(c11, 3))
      ELSE IF HasField(sch_fields, 2)
        THEN IF HasField(c2, 3) THEN ParseHl7Timestamp(PyIndex(c2, 3))
             ELSE FirstDateLike(c2)
      ELSE None

(* lines 185-189: reason *)
SchReason(sch_fields) ==
  IF HasField(sch_fields, 7) THEN PyIndex(sch_fields, 7)
  ELSE IF HasField(sch_fields, 3) THEN PyIndex(sch_fields, 3)
  ELSE None

(* lines 193-202: location *)
SchLocation(sch_fields, cd) ==
  LET from11 == IF HasField(sch_fields, 11)
                  THEN Opt(SafeSplit(PyIndex(sch_fields, 11), cd), 2)
                  ELSE None
  IN  IF from11 # None THEN from11
      ELSE IF HasField(sch_fields, 4)
        THEN Opt(SafeSplit(PyIndex(sch_fields, 4), cd), 2)
      ELSE None

(* lines 206-224: the provider of SCH.16, or None *)
Sch16Provider(sch_fields, cd) ==
  IF HasField(sch_fields, 16)
    THEN
      LET components  == SafeSplit(PyIndex(sch_fields, 16), cd)
          provider_id == Opt(components, 4)
          last_name   == Opt(components, 0)
          first_name  == Opt(components, 1)
          middle_name == Opt(components, 2)
          suffix      == Opt(components, 3)
      IN  IF provider_id # None
               \/ \E i \in 1..Len(components) : i <= 4 /\ components[i] # <<>>
            THEN [id   |-> provider_id,
                  name |-> JoinName(Present(<<first_name, middle_name, last_name,
                                              suffix>>))]
            ELSE NoObj
    ELSE NoObj

(* lines 227-244: the provider of SCH.5, or None *)
Sch5Provider(sch_fields, cd) ==
  IF HasField(sch_fields, 5)
    THEN
      LET components  == SafeSplit(PyIndex(sch_fields, 5), cd)
          last_name   == Opt(components, 1)
          first_name  == Opt(components, 2)
          title       == Opt(components, 3)
          provider_id == Opt(components, 4)
      IN  IF Len(components) > 1
            THEN [id   |-> provider_id,
                  name |-> JoinName(Present(<<first_name, last_name, title>>))]
            ELSE NoObj
    ELSE NoObj

(* lines 204-244: provider after the SCH segment *)
SchProvider(sch_fields, cd) ==
  IF Sch16Provider(sch_fields, cd) # NoObj THEN Sch16Provider(sch_fields, cd)
  ELSE Sch5Provider(sch_fields, cd)

(* lines 248-269 with the Patient attached only when PID.3 holds an id *)
PidPatient_OnlyWithId(pid_fields) ==
  IF HasField(pid_fields, 3)
    THEN
      LET name == IF HasField(pid_fields, 5) THEN ParseName(PyIndex(pid_fields, 5))
                  ELSE [last_name |-> None, first_name |-> None, full_name |-> None]
      IN  [id         |-> PyIndex(pid_fields, 3),
           first_name |-> name.first_name,
           last_name  |-> name.last_name,
           dob        |-> IF HasField(pid_fields, 7)
                            THEN ParseHl7Timestamp(PyIndex(pid_fields, 7))
                            ELSE None,
           gender     |-> IF HasField(pid_fields, 8) THEN PyIndex(pid_fields, 8)
                          ELSE None]
    ELSE NoObj

(* lines 248-269: the Patient of the PID segment *)
PidPatient(pid_fields) ==
  LET name == IF HasField(pid_fields, 5) THEN ParseName(PyIndex(pid_fields, 5))
              ELSE [last_name |-> None, first_name |-> None, full_name |-> None]
  IN  [id         |-> IF HasField(pid_fields, 3) THEN PyIndex(pid_fields, 3) ELSE None,
       first_name |-> name.first_name,
       last_name  |-> name.last_name,
       dob        |-> IF HasField(pid_fields, 7)
                        THEN ParseHl7Timestamp(PyIndex(pid_fields, 7))
                        ELSE None,
       gender     |-> IF HasField(pid_fields, 8) THEN PyIndex(pid_fields, 8) ELSE None]

(* lines 276-302 with a new Provider() in place of appointment.provider *)
Pv1Provider_Replace(pv1_fields, cd, current) ==
  IF HasField(pv1_fields, 7)
    THEN
      LET components  == SafeSplit(PyIndex(pv1_fields, 7), cd)
          last_name   == Opt(components, 1)
          first_name  == Opt(components, 2)
          title       == Opt(components, 3)
          provider_id == IF HasField(components, 4) THEN PyIndex(components, 4)
                         ELSE IF HasField(components, 6) THEN PyIndex(components, 6)
                         ELSE None
      IN  [id   |-> provider_id,
           name |-> JoinName(Present(<<first_name, last_name, title>>))]
    ELSE current

(* lines 276-302: provider after PV1.7, given the provider set so far *)
Pv1Provider(pv1_fields, cd, current) ==
  IF HasField(pv1_fields, 7)
    THEN
      LET components  == SafeSplit(PyIndex(pv1_fields, 7), cd)
          provider    == IF current # NoObj THEN current ELSE [id |-> None, name |-> None]
          last_name   == Opt(components, 1)
          first_name  == Opt(components, 2)
          title       == Opt(components, 3)
          provider_id == IF HasField(components, 4) THEN PyIndex(components, 4)
                         ELSE IF HasField(components, 6) THEN PyIndex(components, 6)
                         ELSE None
      IN  [id   |-> IF provider_id # None THEN provider_id ELSE provider.id,
           name |-> IF last_name # None \/ first_name # None \/ title # None
                      THEN JoinName(Present(<<first_name, last_name, title>>))
                      ELSE provider.name]
    ELSE current

(* lines 305-309 when a location set from SCH is kept *)
Pv1Location_KeepSch(pv1_fields, cd, current) ==
  IF current = None /\ HasField(pv1_fields, 3)
       /\ HasField(SafeSplit(PyIndex(pv1_fields, 3), cd), 0)
    THEN PyIndex(SafeSplit(PyIndex(pv1_fields, 3), cd), 0)
    ELSE current

(* lines 305-309: location after PV1.3, given the location set so far *)
Pv1Location(pv1_fields, cd, current) ==
  IF HasField(pv1_fields, 3)
       /\ HasField(SafeSplit(PyIndex(pv1_fields, 3), cd), 0)
    THEN PyIndex(SafeSplit(PyIndex(pv1_fields, 3), cd), 0)
    ELSE current

(* message.segments[segment_type][0] raises IndexError *)
FirstSegmentRaises(m, segment_type) ==
  segment_type \in DOMAIN m.segments /\ m.segments[segment_type] = <<>>

FirstSegment_Last(m, segment_type) ==
  IF segment_type \in DOMAIN m.segments /\ m.segments[segment_type] # <<>>
    THEN m.segments[segment_type][Len(m.segments[segment_type])]
    ELSE <<>>

(* message.segments[segment_type][0], or no fields when the type is missing *)
FirstSegment(m, segment_type) ==
  IF segment_type \in DOMAIN m.segments /\ m.segments[segment_type] # <<>>
    THEN m.segments[segment_type][1]
    ELSE <<>>

(* lines 143-311: the Appointment as assigned, subscripts that raised left *)
(* as IndexError in the attribute they were read for                      *)
AppointmentOf(m) ==
  LET cd         == m.delimiters.component
      has_sch    == SCH \in DOMAIN m.segments
      has_pv1    == PV1 \in DOMAIN m.segments
      sch_fields == FirstSegment(m, SCH)
      pv1_fields == FirstSegment(m, PV1)
      sch_provider == IF has_sch THEN SchProvider(sch_fields, cd) ELSE NoObj
      sch_location == IF has_sch THEN SchLocation(sch_fields, cd) ELSE None
  IN  [appointment_id       |-> IF has_sch THEN SchAppointmentId(sch_fields) ELSE None,
       appointment_datetime |-> IF has_sch THEN SchDatetime(sch_fields, cd) ELSE None,
       patient              |-> IF PID \in DOMAIN m.segments
                                  THEN PidPatient(FirstSegment(m, PID))
                                  ELSE NoObj,
       provider             |-> IF has_pv1 THEN Pv1Provider(pv1_fields, cd, sch_provider)
                                ELSE sch_provider,
       location             |-> IF has_pv1 THEN Pv1Location(pv1_fields, cd, sch_location)
                                ELSE sch_location,
       reason               |-> IF has_sch THEN SchReason(sch_fields) ELSE None]

(* the attributes of an Appointment, of its Patient and of its Provider *)
Attributes(a) ==
  {a.appointment_id, a.appointment_datetime, a.location, a.reason}
    \cup (IF a.patient = NoObj THEN {}
          ELSE {a.patient.id, a.patient.first_name, a.patient.last_name,
                a.patient.dob, a.patient.gender})
    \cup (IF a.provider = NoObj THEN {} ELSE {a.provider.id, a.provider.name})

(* the Appointment a, unless a subscript raised while it was built *)
Returned(a) ==
  IF IndexError \in Attributes(a) THEN Raise("IndexError", "list index out of range")
  ELSE a

(* extract_appointment(message): the Appointment, or the exception raised *)
ExtractAppointment(m) ==
  IF \/ FirstSegmentRaises(m, SCH) \/ FirstSegmentRaises(m, PID)
     \/ FirstSegmentRaises(m, PV1)
    THEN Raise("IndexError", "list index out of range")
    ELSE CHOOSE r \in { Returned(a) : a \in {AppointmentOf(m)} } : TRUE

(* lines 340-343: an HL7ParseError is raised again, any other exception *)
(* is wrapped in one                                                    *)
Reraise(e) ==
  IF e.raised \in {"HL7ParseError", "InvalidMessageError"} THEN e
  ELSE Raise("HL7ParseError", "Error parsing HL7 message")

(* lines 336-343, given what extract_appointment returned or raised *)
SiuExtracted(a) == IF IsRaised(a) THEN Reraise(a) ELSE a

(* lines 333-343, given the message that parse_message returned or the *)
(* exception it raised                                                  *)
SiuResult(m) ==
  IF IsRaised(m) THEN Reraise(m)
  ELSE IF IsRaised(ValidateSiuMessage(m)) THEN Reraise(ValidateSiuMessage(m))
  ELSE CHOOSE r \in { SiuExtracted(a) : a \in {ExtractAppointment(m)} } : TRUE

(* parse_siu_message(raw_message): the Appointment, or the exception raised *)
ParseSiuMessage(raw_message) ==
  CHOOSE r \in { SiuResult(m) : m \in {ParseMessage(raw_message)} } : TRUE

-----------------------------------------------------------------------------
(* models.HL7Message *)

(* x[k] for a list or text x that is not empty and k >= -len(x): a negative *)
(* k counts from the end                                                    *)
Subscript(x, k) ==
  IF k < 0 THEN x[Len(x) + k + 1]
  ELSE IF k < Len(x) THEN x[k + 1]
  ELSE IndexError

(* lines 106-114: the value returned for the field, component_index being *)
(* <<k>> for an index k and <<>> for None                                 *)
FieldOrComponent(field_value_, cd, component_index_) ==
  IF component_index_ # <<>> /\ field_value_ # <<>>
       /\ component_index_[1] < Len(Split(field_value_, cd))
    THEN Subscript(Split(field_value_, cd), component_index_[1])
    ELSE field_value_

(* HL7Message.get_field(segment_type, field_index, component_index) *)
GetField(m, segment_type, field_index_, component_index_) ==
  IF segment_type \notin DOMAIN m.segments THEN None
  ELSE IF m.segments[segment_type] = <<>> THEN None
  ELSE IF field_index_ >= Len(m.segments[segment_type][1]) THEN None
  ELSE FieldOrComponent(Subscript(m.segments[segment_type][1], field_index_),
                        m.delimiters.component, component_index_)

-----------------------------------------------------------------------------
(* parser.HL7FileParser *)

RECURSIVE SplitLoop(_, _, _)
(* lines 366-380: the loop over the lines, then the last message *)
SplitLoop(lines, messages, current_message) ==
  IF lines = <<>>
    THEN IF current_message # <<>>
           THEN Append(messages, Join(current_message, <<CR>>))
           ELSE messages
  ELSE IF Strip(Head(lines)) = <<>>
    THEN SplitLoop(Tail(lines), messages, current_message)
  ELSE IF StartsWith(Strip(Head(lines)), MSH) /\ current_message # <<>>
    THEN SplitLoop(Tail(lines), Append(messages, Join(current_message, <<CR>>)),
                   <<Strip(Head(lines))>>)
  ELSE SplitLoop(Tail(lines), messages, Append(current_message, Strip(Head(lines))))

(* split_messages(file_content) *)
SplitMessages(file_content) ==
  SplitLoop(Split(NormalizeLineEndings(file_content), CR), <<>>, <<>>)

(* lines 400-402: f.read() of a file opened in text mode gives every line *)
(* end, \r\n and \r included, as \n                                       *)
ReadText(file_text) ==
  [i \in 1..Len(ReplaceCRLF(file_text)) |->
     IF ReplaceCRLF(file_text)[i] = CR THEN LF ELSE ReplaceCRLF(file_text)[i]]

(* lines 415-424 without the continue: a failure drops what was collected *)
Handled_ForgetEarlier(appointments_, warnings_, i, r) ==
  IF ~IsRaised(r)
    THEN [appointments |-> Append(appointments_, r), warnings |-> warnings_]
    ELSE [appointments |-> <<>>, warnings |-> warnings_]

(* lines 415-424: one iteration of the loop of parse_file, r what         *)
(* parse_siu_message returned or raised for message i (counted from 0);   *)
(* a warning is kept as the message number that is printed                *)
Handled(appointments_, warnings_, i, r) ==
  IF ~IsRaised(r)
    THEN [appointments |-> Append(appointments_, r), warnings |-> warnings_]
  ELSE IF r.raised = "InvalidMessageError"
    THEN [appointments |-> appointments_, warnings |-> warnings_]
  ELSE [appointments |-> appointments_, warnings |-> Append(warnings_, i + 1)]

-----------------------------------------------------------------------------
(* Inputs of parse_message and parse_siu_message: a header line, then PID, *)
(* SCH and PV1 lines cut after any number of fields, with the end-of-line  *)
(* conventions of the wire format.                                         *)

(* the highest field index that extract_appointment reads in each segment *)
SchLastField == 16
PidLastField == 8
Pv1LastField == 7

Empty == <<>>

HdrSiuS12 == <<"M", "S", "H", "|", "^", "~", "\\", "&", "|", "|", "|", "|", "|", "|", "|", "S", "I", "U", "^", "S", "1", "2">>
HdrSiuS13 == <<"M", "S", "H", "|", "^", "~", "\\", "&", "|", "|", "|", "|", "|", "|", "|", "S", "I", "U", "^", "S", "1", "3">>
HdrSiuBare == <<"M", "S", "H", "|", "^", "~", "\\", "&", "|", "|", "|", "|", "|", "|", "|", "S", "I", "U">>
HdrSiuLonger == <<"M", "S", "H", "|", "^", "~", "\\", "&", "|", "|", "|", "|", "|", "|", "|", "S", "I", "U", "^", "S", "1", "2", "^", "S", "I", "U", "_", "S", "1", "2", "|", "M", "1", "|", "P", "|", "2", ".", "5">>
HdrAdt == <<"M", "S", "H", "|", "^", "~", "\\", "&", "|", "|", "|", "|", "|", "|", "|", "A", "D", "T", "^", "A", "0", "1">>
HdrSiux == <<"M", "S", "H", "|", "^", "~", "\\", "&", "|", "|", "|", "|", "|", "|", "|", "S", "I", "U", "X", "^", "S", "1", "2">>
HdrNoCode == <<"M", "S", "H", "|", "^", "~", "\\", "&", "|", "|", "|", "|", "|", "|", "|", "^", "S", "1", "2">>
HdrNoType == <<"M", "S", "H", "|", "^", "~", "\\", "&", "|", "A", "|", "B">>
HdrTagOnly == <<"M", "S", "H">>
HdrTagAndDelimiter == <<"M", "S", "H", "|">>
HdrHashInPlace == <<"M", "S", "H", "|", "#", "~", "\\", "&", "|", "|", "|", "|", "|", "|", "|", "S", "I", "U", "#", "S", "1", "2">>
HdrHashDoubled == <<"M", "S", "H", "|", "|", "#", "~", "\\", "&", "|", "|", "|", "|", "|", "|", "S", "I", "U", "#", "S", "1", "2">>
HdrCaretDoubled == <<"M", "S", "H", "|", "|", "#", "~", "\\", "&", "|", "|", "|", "|", "|", "|", "S", "I", "U", "^", "S", "1", "2">>
HdrShortEncoding == <<"M", "S", "H", "|", "|", "#", "~", "|", "|", "|", "|", "|", "|", "S", "I", "U", "^", "S", "1", "2">>
HdrBang == <<"M", "S", "H", "!", "^", "~", "\\", "&", "!", "!", "!", "!", "!", "!", "!", "S", "I", "U", "^", "S", "1", "2">>
NotAHeader == <<"N", "o", "t", " ", "a", "n", " ", "H", "L", "7", " ", "m", "e", "s", "s", "a", "g", "e">>
Blank == <<" ", " ">>

Headers ==
  {HdrSiuS12, HdrSiuS13, HdrSiuBare, HdrSiuLonger, HdrAdt, HdrSiux, HdrNoCode,
   HdrNoType, HdrTagOnly, HdrTagAndDelimiter, HdrHashInPlace, HdrHashDoubled,
   HdrCaretDoubled, HdrShortEncoding, NotAHeader, Blank, Empty}

Eols == {<<CR>>, <<LF>>, <<CR, LF>>}

SchF2s == {<<"^", "^", "^", "2", "0", "2", "5", "0", "5", "0", "2", "1", "3", "+", "0", "5", "0", "0", "^", "^", "6", "0">>, <<"b", "a", "d", "1", "2", "3", "4", "5", "^", "2", "0", "2", "4", "0", "2", "2", "9">>, <<>>}
SchF5s == {<<"^", "S", "m", "^", "J", "a", "^", "M", "D", "^", "D", "5">>, <<"X">>, <<"^">>}
SchF7s == {<<"R", "7">>, <<>>}
SchF11s == {<<"^", "^", "L", "1", "1", "^", "2", "0", "2", "5", "0", "5", "0", "2", "1", "3", "0", "0", "0", "0">>, <<"^", "^", "L", "1", "1", "^", "2", "0", "2", "5", "1", "3", "0", "2">>, <<"^", "^", "L", "1", "1">>, <<"^", "^", "^">>}
SchF16s == {<<"S", "m", "^", "J", "a", "^", "Q", "^", "J", "r", "^", "D", "1", "6">>, <<"^", "^", "^", "^", "D", "1", "6">>, <<"^", "^", "^", "^">>}

SchFields(f2, f5, f7, f11, f16) ==
  <<SCH, <<"A", "1">>, f2, <<"R", "3">>, <<"^", "^", "L", "4">>, f5, <<>>, f7, <<>>, <<>>, <<>>, f11, <<>>, <<>>, <<>>, <<>>, f16>>

(* a segment cut after its field n *)
Cut(fields, n, fd) == Join(SubSeq(fields, 1, n + 1), <<fd>>)

SchLines ==
  { Cut(SchFields(f2, f5, f7, f11, f16), n, "|") :
      f2 \in SchF2s, f5 \in SchF5s, f7 \in SchF7s, f11 \in SchF11s, f16 \in SchF16s,
      n \in 0..SchLastField }

(* SCH lines that differ in their provider and location fields only *)
SchProviderLines ==
  { Cut(SchFields(Empty, f5, Empty, f11, f16), n, "|") :
      f5 \in SchF5s, f11 \in {<<"^", "^", "L", "1", "1">>, <<"^", "^", "^">>}, f16 \in SchF16s,
      n \in {5, SchLastField} }

PidFields ==
  <<PID, <<"1">>, <<>>, <<"P", "1">>, <<>>, <<"D", "o", "e", "^", "J", "o", "h", "n", "^", "^", "^", "M", "r", ".">>, <<>>, <<"1", "9", "8", "5", "0", "2", "1", "0">>, <<"M">>>>

PidLines ==
  { Cut(PidFields, n, "|") : n \in 0..PidLastField }
    \cup { Cut([i \in 1..(n + 1) |-> IF i = 1 THEN PID ELSE Empty], n, "|") :
             n \in 1..(PidLastField + 1) }
    \cup {<<"P", "I", "D", "|", "|", "|", "P", "2", "|", "|", "^", "J", "a", "n", "e", "|", "|", "1", "9", "8", "5", "|", "F">>,
           <<"P", "I", "D", "|", "|", "|", "|", "|", "|", "|", "|", "F">>,
           <<"P", "I", "D", "|", "|", "|", "|", "|", "|", "|", "1", "9", "8", "5", "0", "2", "1", "0">>,
           <<"P", "I", "D", "|", "|", "|", "|", "|", "D", "o", "e", "#", "J", "o", "h", "n", "|", "|", "2", "0", "2", "4", "0", "2", "3", "0", "|">>}

Pv1F3s == {<<"O", "P", "D", "^", "2", "0", "3">>, <<"^", "2", "0", "3">>, <<>>}
Pv1F7s == {<<"^", "P", "m", "^", "P", "a", "^", "D", "O", "^", "^", "^", "P", "7">>, <<"^", "P", "m", "^", "P", "a", "^", "D", "O", "^", "P", "5">>, <<"^", "^", "^", "^", "P", "5">>, <<"^", "P", "m">>, <<"^">>, <<>>}

Pv1Fields(f3, f7) ==
  <<PV1, <<"1">>, <<"O">>, f3, <<>>, <<>>, <<>>, f7>>

Pv1Lines ==
  { Cut(Pv1Fields(f3, f7), n, "|") : f3 \in Pv1F3s, f7 \in Pv1F7s, n \in 0..Pv1LastField }

(* body lines written with other delimiters than the defaults *)
HashLines == {<<"S", "C", "H", "|", "A", "1", "|", "#", "#", "#", "2", "0", "2", "4", "0", "2", "2", "9", "|", "R", "3", "|", "#", "#", "L", "4", "|", "#", "S", "m", "#", "J", "a", "#", "M", "D", "#", "D", "5">>, <<"S", "C", "H", "|", "A", "1", "|", "^", "^", "^", "2", "0", "2", "4", "0", "2", "2", "9", "|", "R", "3", "|", "^", "^", "L", "4", "|", "^", "S", "m", "^", "J", "a", "^", "M", "D", "^", "D", "5">>, <<"P", "V", "1", "|", "1", "|", "O", "|", "O", "P", "D", "#", "2", "0", "3", "|", "|", "|", "|", "#", "P", "m", "#", "P", "a", "#", "D", "O", "#", "P", "5">>}
BangLines == {<<"S", "C", "H", "!", "A", "1", "!", "^", "^", "^", "2", "0", "2", "4", "0", "2", "2", "9", "!", "R", "3", "!", "^", "^", "L", "4", "!", "^", "S", "m", "^", "J", "a", "^", "M", "D", "^", "D", "5">>, <<"S", "C", "H", "|", "A", "1", "|", "^", "^", "^", "2", "0", "2", "4", "0", "2", "2", "9", "|", "R", "3">>}

(* the lines of a message, each ended by eol but the last *)
Text(lines, eol) == Join(SelectSeq(lines, LAMBDA l : l # NotRun), eol)

(* messages that differ in their header and line ends *)
HeaderMessages ==
  { Text(<<h, body>>, eol) :
      h \in Headers, body \in {NotRun, Cut(PidFields, PidLastField, "|")}, eol \in Eols }
    \cup { <<LF>> \o HdrSiuS12 \o <<CR, LF, CR, LF>> \o Cut(PidFields, 3, "|") \o <<LF>>,
           Cut(PidFields, 3, "|") \o <<CR>> \o HdrSiuS12 }
    \cup { Text(<<h, l>>, <<CR>>) : h \in {HdrHashDoubled, HdrHashInPlace}, l \in HashLines }
    \cup { Text(<<HdrBang, l>>, <<CR>>) : l \in BangLines }

(* messages that differ in their SCH segment *)
SchMessages ==
  { Text(<<HdrSiuS12, s, v>>, <<CR>>) :
      s \in SchLines, v \in {NotRun, Cut(Pv1Fields(<<"O", "P", "D", "^", "2", "0", "3">>, <<"^", "P", "m", "^", "P", "a", "^", "D", "O", "^", "^", "^", "P", "7">>), Pv1LastField, "|")} }

(* messages that differ in their PV1 segment and in what it overrides *)
Pv1Messages ==
  { Text(<<HdrSiuS12, s, v>>, <<LF>>) :
      s \in SchProviderLines \cup {NotRun}, v \in Pv1Lines }

(* messages that differ in their PID segment *)
PidMessages ==
  { Text(<<HdrSiuS12, p, s>>, <<LF>>) :
      p \in PidLines, s \in {NotRun, <<"S", "C", "H", "|", "|", "|", "|", "|", "|", "|", "|">>} }

(* messages with several segments of one type, and with lines whose tag *)
(* is not followed by the field delimiter                               *)
RepeatMessages ==
  { Text(<<HdrSiuS12, a, b, c>>, eol) :
      a \in {<<"P", "I", "D", "|", "1", "|", "|", "P", "1">>, <<"P", "I", "D", "X", "|", "9", "|", "|", "P", "9">>},
      b \in {<<"S", "C", "H", "|", "A", "1">>, <<" ", " ">>, <<"P", "I", "D">>},
      c \in {<<"P", "I", "D", "|", "2", "|", "|", "P", "2">>, HdrAdt, <<"P", "I">>},
      eol \in {<<CR>>, <<CR, LF>>} }

(* messages whose first PID, SCH and PV1 lines are followed, at once or at *)
(* the end, by further lines of the same types                            *)
LaterLines ==
  { NotRun,
    <<"P", "I", "D", "|", "2", "|", "|", "P", "2", "|", "|", "R", "o", "e", "^", "A", "n", "n", "|", "|", "1", "9", "9", "0", "0", "1", "0", "1", "|", "F">>,
    <<"S", "C", "H", "|", "A", "2", "|", "^", "^", "^", "2", "0", "2", "4", "0", "2", "2", "9", "|", "R", "9", "|", "^", "^", "L", "9", "|", "^", "Z", "z", "^", "Y", "y", "^", "M", "D", "^", "D", "9">>,
    <<"P", "V", "1", "|", "2", "|", "I", "|", "W", "A", "R", "D", "^", "9", "|", "|", "|", "|", "^", "Q", "q", "^", "W", "w", "^", "R", "N", "^", "^", "^", "Q", "7">>,
    <<"P", "I", "D">> }

OccurMessages ==
  { Text(<<HdrSiuS12, a, l0, Cut(SchFields(Empty, <<"X">>, Empty, <<"^", "^", "L", "1", "1">>, Empty), 11, "|"), v, l1, l2>>, <<CR>>) :
      a \in {<<"P", "I", "D", "|", "1", "|", "|", "P", "1">>, <<"P", "I", "D", "X", "|", "9", "|", "|", "P", "9">>},
      l0 \in {NotRun, <<"P", "I", "D", "|", "2", "|", "|", "P", "2", "|", "|", "R", "o", "e", "^", "A", "n", "n", "|", "|", "1", "9", "9", "0", "0", "1", "0", "1", "|", "F">>},
      v \in {NotRun, Cut(Pv1Fields(<<"O", "P", "D", "^", "2", "0", "3">>, <<"^", "P", "m">>), Pv1LastField, "|")},
      l1 \in LaterLines, l2 \in LaterLines }

RawMessages ==
  HeaderMessages \cup SchMessages \cup Pv1Messages \cup PidMessages \cup RepeatMessages
    \cup OccurMessages

Init ==
  /\ op = "init"
  /\ raw \in RawMessages
  /\ message = NotRunRec
  /\ result = NotRunRec
  /\ IdleFile /\ IdleTs /\ IdleName
  /\ IdleField /\ IdleCalls

(* a call of HL7Parser.parse_message(raw) *)
ParseMessageCall ==
  /\ op = "init"
  /\ message' = ParseMessage(raw)
  /\ op' = "parse_message"
  /\ UNCHANGED <<raw, result, content, raw_messages, idx, appointments, warnings,
                 token, iso, hl7_name, name_out,
                 get_field_vars, call_vars>>

(* a call of HL7Parser.validate_siu_message on the parsed message *)
ValidateCall ==
  /\ op = "parse_message"
  /\ ~IsRaised(message)
  /\ result' = ValidateSiuMessage(message)
  /\ op' = "validate_siu_message"
  /\ UNCHANGED <<raw, message, content, raw_messages, idx, appointments, warnings,
                 token, iso, hl7_name, name_out,
                 get_field_vars, call_vars>>

(* a call of HL7Parser.extract_appointment on the parsed message *)
ExtractCall ==
  /\ op \in {"parse_message", "validate_siu_message"}
  /\ ~IsRaised(message)
  /\ result' = ExtractAppointment(message)
  /\ op' = "extract_appointment"
  /\ UNCHANGED <<raw, message, content, raw_messages, idx, appointments, warnings,
                 token, iso, hl7_name, name_out,
                 get_field_vars, call_vars>>

(* a call of HL7Parser.parse_siu_message(raw) *)
ParseSiuMessageCall ==
  /\ op = "init"
  /\ result' = ParseSiuMessage(raw)
  /\ op' = "parse_siu_message"
  /\ UNCHANGED <<raw, message, content, raw_messages, idx, appointments, warnings,
                 token, iso, hl7_name, name_out,
                 get_field_vars, call_vars>>

Next == ParseMessageCall \/ ValidateCall \/ ExtractCall \/ ParseSiuMessageCall

Spec == Init /\ [][Next]_vars

-----------------------------------------------------------------------------
(* Inputs of get_field: a parsed message, a segment type, a field index up *)
(* to MaxFieldIndex and no component index or one up to MaxComponentIndex; *)
(* -1 is the index Python counts from the end.                             *)

MaxFieldIndex == 9
MaxComponentIndex == 6

FieldMessages ==
  { Text(<<HdrSiuS12, Cut(PidFields, n, "|")>>, <<CR>>) : n \in {0, 5, PidLastField} }
    \cup { Text(<<HdrHashDoubled, l>>, <<CR>>) : l \in HashLines }

SegmentTypes == {MSH, PID, SCH, PV1}

ComponentIndexes == {<<>>} \cup { <<k>> : k \in (-1)..MaxComponentIndex }

InitField ==
  /\ op = "init"
  /\ raw \in FieldMessages
  /\ message = NotRunRec
  /\ result = NotRunRec
  /\ IdleField
  /\ IdleFile /\ IdleTs /\ IdleName /\ IdleCalls

(* a call of message.get_field(segment_type, field_index, component_index) *)
GetFieldCall ==
  /\ op = "parse_message"
  /\ ~IsRaised(message)
  /\ \E st \in SegmentTypes, fi \in (-1)..MaxFieldIndex, ci \in ComponentIndexes :
       /\ segment_type_arg' = st
       /\ field_index' = fi
       /\ component_index' = ci
       /\ field_value' = GetField(message, st, fi, ci)
  /\ op' = "get_field"
  /\ UNCHANGED <<raw, message, result, content, raw_messages, idx, appointments,
                 warnings, token, iso, hl7_name, name_out, call_vars>>

NextField == ParseMessageCall \/ GetFieldCall

SpecField == InitField /\ [][NextField]_vars

-----------------------------------------------------------------------------
(* Calls of parse_siu_message from several threads. A call runs lines 330, *)
(* 333 and 336 one at a time, so that the calls of two threads interleave  *)
(* in every order; raw_message and message are locals of the call, and     *)
(* the methods are static and read no attribute of a class or a module.    *)
(* began is the number of calls that had ended when the call was made.     *)

MaxCalls == 3

CallMessages ==
  { Text(<<HdrSiuS12, Cut(SchFields(Empty, <<"X">>, Empty, <<"^", "^", "L", "1", "1">>, Empty), 11, "|")>>, <<CR>>),
    Text(<<HdrShortEncoding, <<"S", "C", "H", "|", "A", "1", "|", "#", "#", "#", "2", "0", "2", "4", "0", "2", "2", "9">>>>, <<CR>>),
    HdrAdt,
    NotAHeader }

InitCalls ==
  /\ op = "init"
  /\ IdleMsg /\ IdleFile /\ IdleTs /\ IdleName /\ IdleField
  /\ IdleCalls

(* the variables of the operations that are called one at a time *)
sequential_vars ==
  <<op, raw, message, result, content, raw_messages, idx, appointments,
    warnings, token, iso, hl7_name, name_out, get_field_vars>>

InFlight == { t \in Threads : frames[t].pc # "idle" }

(* line 330 reads the parameter raw_message of the call of thread t *)
RawMessageRead(t) == frames[t].raw_message

MessageRead_AnyThread(t) ==
  frames[CHOOSE u \in Threads :
           /\ frames[u].message # NotRunRec
           /\ \A v \in Threads : frames[v].message # NotRunRec => u <= v].message

(* lines 333 and 336 read the local message of the call of thread t *)
MessageRead(t) == frames[t].message

(* thread t calls parse_siu_message(r) *)
SiuCall(t) ==
  /\ frames[t].pc = "idle"
  /\ Len(calls) + Cardinality(InFlight) < MaxCalls
  /\ \E r \in CallMessages :
       frames' = [frames EXCEPT ![t] = [pc |-> "parse_message", raw_message |-> r,
                                        message |-> NotRunRec, began |-> Len(calls)]]
  /\ UNCHANGED <<calls, sequential_vars>>

(* the call of thread t ends: it returns an Appointment or raises *)
SiuEnd(t, r) ==
  /\ calls' = Append(calls, [raw |-> frames[t].raw_message, result |-> r,
                             began |-> frames[t].began])
  /\ frames' = [frames EXCEPT ![t] = IdleFrame]

(* line 330, with lines 340-343 when parse_message raises *)
SiuParse(t) ==
  /\ frames[t].pc = "parse_message"
  /\ \E m \in {ParseMessage(RawMessageRead(t))} :
       IF IsRaised(m)
         THEN SiuEnd(t, Reraise(m))
         ELSE /\ frames' = [frames EXCEPT ![t].pc = "validate_siu_message",
                                          ![t].message = m]
              /\ UNCHANGED calls
  /\ UNCHANGED sequential_vars

(* line 333, with lines 340-343 when validate_siu_message raises *)
SiuValidate(t) ==
  /\ frames[t].pc = "validate_siu_message"
  /\ \E v \in {ValidateSiuMessage(MessageRead(t))} :
       IF IsRaised(v)
         THEN SiuEnd(t, Reraise(v))
         ELSE /\ frames' = [frames EXCEPT ![t].pc = "extract_appointment"]
              /\ UNCHANGED calls
  /\ UNCHANGED sequential_vars

(* lines 336-343 *)
SiuExtract(t) ==
  /\ frames[t].pc = "extract_appointment"
  /\ \E a \in {ExtractAppointment(MessageRead(t))} : SiuEnd(t, SiuExtracted(a))
  /\ UNCHANGED sequential_vars

NextCalls ==
  \E t \in Threads : SiuCall(t) \/ SiuParse(t) \/ SiuValidate(t) \/ SiuExtract(t)

SpecCalls == InitCalls /\ [][NextCalls]_vars

-----------------------------------------------------------------------------
(* Inputs of parse_file: the content of a file of up to MaxLines lines,     *)
(* each a header, a body line, a line that belongs to no message or a line  *)
(* of white space.                                                          *)

MaxLines == 4

SchLine == <<"S", "C", "H", "|", "A", "1">>

FileLines == {HdrSiuS12, HdrAdt, HdrTagOnly, SchLine, NotAHeader, Blank}

FileContents ==
  { Join(lines, <<LF>>) : lines \in UNION { [1..n -> FileLines] : n \in 0..MaxLines } }
    \cup { Join(<<a, b>>, eol) \o eol :
             a \in FileLines, b \in FileLines, eol \in {<<CR>>, <<CR, LF>>} }

InitFile ==
  /\ op = "init"
  /\ content \in FileContents
  /\ raw_messages = <<>>
  /\ idx = 0
  /\ appointments = <<>>
  /\ warnings = <<>>
  /\ IdleMsg /\ IdleTs /\ IdleName
  /\ IdleField /\ IdleCalls

(* parse_file, lines 399-412: the content of the file is read and split *)
(* into messages                                                        *)
SplitContent ==
  /\ op = "init"
  /\ content # NotRun
  /\ raw_messages' = SplitMessages(ReadText(content))
  /\ appointments' = <<>>
  /\ idx' = 0
  /\ op' = "parse_file"
  /\ UNCHANGED <<raw, message, result, content, warnings, token, iso, hl7_name,
                 name_out,
                 get_field_vars, call_vars>>

(* parse_file, lines 414-424: one iteration of the loop over raw_messages *)
HandleMessage ==
  /\ op = "parse_file"
  /\ idx < Len(raw_messages)
  /\ \E after \in { Handled(appointments, warnings, idx, r) :
                      r \in {ParseSiuMessage(raw_messages[idx + 1])} } :
       /\ appointments' = after.appointments
       /\ warnings' = after.warnings
  /\ idx' = idx + 1
  /\ UNCHANGED <<op, raw, message, result, content, raw_messages, token, iso,
                 hl7_name, name_out,
                 get_field_vars, call_vars>>

(* parse_file, line 426: the loop is over, the appointments are returned *)
ReturnAppointments ==
  /\ op = "parse_file"
  /\ idx = Len(raw_messages)
  /\ op' = "returned"
  /\ UNCHANGED <<raw, message, result, content, raw_messages, idx, appointments,
                 warnings, token, iso, hl7_name, name_out,
                 get_field_vars, call_vars>>

NextFile == SplitContent \/ HandleMessage \/ ReturnAppointments

SpecFile == InitFile /\ [][NextFile]_vars

-----------------------------------------------------------------------------
(* Inputs of parse_hl7_timestamp: up to MaxDigits characters of a            *)
(* YYYYMMDDHHMMSS text, an optional zone offset, optional surrounding white  *)
(* space.                                                                    *)

MaxDigits == 16

TsYears == {<<"2", "0", "2", "5">>, <<"2", "0", "2", "4">>, <<"0", "0", "0", "0">>}
TsMonths == {<<"0", "2">>, <<"1", "2">>, <<"1", "3">>, <<"0", "0">>, <<"x", "5">>}
TsDays == {<<"2", "9">>, <<"3", "1">>, <<"0", "0">>, <<"1", "0">>}
TsHours == {<<"1", "3">>, <<"2", "4">>}
TsMinutes == {<<"5", "9">>, <<"6", "0">>}
TsSeconds == {<<"0", "0">>, <<"6", "0">>}
TsExtra == <<"9", "9", "9", "9", "9", "9", "9", "9">>
TsZones == {<<>>, <<"+", "0", "5", "0", "0">>, <<"-", "0", "8", "3", "0">>,
            <<"+", "0", "5">>}
TsPadding == {<<>>, <<SP>>}

TsTokens ==
  { pad \o Slice(y \o mo \o d \o h \o mi \o se \o TsExtra, 0, n) \o z \o pad :
      y \in TsYears, mo \in TsMonths, d \in TsDays, h \in TsHours,
      mi \in TsMinutes, se \in TsSeconds, n \in 0..MaxDigits, z \in TsZones,
      pad \in TsPadding }

InitTs ==
  /\ op = "init"
  /\ token \in TsTokens
  /\ iso = NotRun
  /\ IdleMsg /\ IdleFile /\ IdleName
  /\ IdleField /\ IdleCalls

(* a call of parse_hl7_timestamp(token) *)
ParseTimestamp ==
  /\ op = "init"
  /\ token # NotRun
  /\ iso' = ParseHl7Timestamp(token)
  /\ op' = "parse_hl7_timestamp"
  /\ UNCHANGED <<raw, message, result, content, raw_messages, idx, appointments,
                 warnings, token, hl7_name, name_out,
                 get_field_vars, call_vars>>

NextTs == ParseTimestamp

SpecTs == InitTs /\ [][NextTs]_vars

-----------------------------------------------------------------------------
(* Inputs of parse_name: up to MaxComponents components, each empty or the *)
(* text of its position, joined by '^'.                                    *)

MaxComponents == 6

NameTexts ==
  << <<"D", "o", "e">>, <<"J", "o", "h", "n">>, <<"Q">>, <<"J", "r">>,
     <<"M", "r", ".">>, <<"X">>, <<"Y">>, <<"Z">> >>

NameText(i) == IF i <= Len(NameTexts) THEN NameTexts[i] ELSE <<"W">>

NameFields ==
  { Join([i \in 1..k |-> IF i \in filled THEN NameText(i) ELSE <<>>], <<"^">>) :
      <<k, filled>> \in { <<k, filled>> \in (0..MaxComponents) \X SUBSET (1..MaxComponents) :
                            filled \subseteq 1..k } }

InitName ==
  /\ op = "init"
  /\ hl7_name \in NameFields
  /\ name_out = NotRun
  /\ IdleMsg /\ IdleFile /\ IdleTs
  /\ IdleField /\ IdleCalls

(* a call of parse_name(hl7_name) *)
ParseNameCall ==
  /\ op = "init"
  /\ hl7_name # NotRun
  /\ name_out' = ParseName(hl7_name)
  /\ op' = "parse_name"
  /\ UNCHANGED <<raw, message, result, content, raw_messages, idx, appointments,
                 warnings, token, iso, hl7_name,
                 get_field_vars, call_vars>>

NextName == ParseNameCall

SpecName == InitName /\ [][NextName]_vars

-----------------------------------------------------------------------------
(* Properties of parse_hl7_timestamp, checked under SpecTs *)

TsDone == op = "parse_hl7_timestamp"

(* the token ends in a sign and four digits *)
EndsInZone(s) ==
  /\ Len(s) >= 5
  /\ s[Len(s) - 4] \in {"+", "-"}
  /\ \A i \in (Len(s) - 3)..Len(s) : IsDigit(s[i])

(* the token without surrounding white space and without its zone offset *)
TsCore ==
  LET s == Strip(token)
  IN  IF EndsInZone(s) THEN SubSeq(s, 1, Len(s) - 5) ELSE s

(* the parts of the date and time that a token of n digits specifies, the *)
(* others at their defaults                                               *)
TsParts ==
  LET n == Len(TsCore)
  IN  [year   |-> Num4(TsCore, 1),
       month  |-> IF n >= 6 THEN Num2(TsCore, 5) ELSE 1,
       day    |-> IF n >= 8 THEN Num2(TsCore, 7) ELSE 1,
       hour   |-> IF n >= 10 THEN Num2(TsCore, 9) ELSE 0,
       minute |-> IF n >= 12 THEN Num2(TsCore, 11) ELSE 0,
       second |-> IF n >= 14 THEN Num2(TsCore, 13) ELSE 0]

(* a date of the calendar (years 1 to 9999) and a time of day *)
TsPartsValid ==
  /\ TsParts.year >= 1
  /\ TsParts.month \in 1..12
  /\ TsParts.day >= 1 /\ TsParts.day <= DaysInMonth(TsParts.year, TsParts.month)
  /\ TsParts.hour \in 0..23
  /\ TsParts.minute \in 0..59
  /\ TsParts.second \in 0..59

TsPartsText ==
  Pad4(TsParts.year) \o <<"-">> \o Pad2(TsParts.month) \o <<"-">>
    \o Pad2(TsParts.day) \o <<"T">> \o Pad2(TsParts.hour) \o <<":">>
    \o Pad2(TsParts.minute) \o <<":">> \o Pad2(TsParts.second)

(* C7: for a token of n >= 4 digits (zone offset removed) the result is    *)
(* built from the parts that n selects: n>=14 year..second, 12<=n<14       *)
(* year..minute, 10<=n<12 year..hour, 8<=n<10 the date at 00:00:00, 6<=n<8 *)
(* year and month with day 1, 4<=n<6 the year with month 1 and day 1;      *)
(* digits beyond the precision are ignored, unspecified parts are default. *)
C7_PrecisionByDigitCount ==
  (TsDone /\ AllDigits(TsCore) /\ Len(TsCore) >= 4) =>
    /\ TsPartsValid => iso # None
    /\ iso # None => Slice(iso, 0, 19) = TsPartsText

(* a 13-digit token parsed to minute precision, its 13th digit ignored *)
C7_Witness ==
  /\ TsDone /\ AllDigits(TsCore) /\ Len(TsCore) = 13
  /\ iso # None
  /\ Slice(iso, 14, 19) = <<"5", "9", ":", "0", "0">>

IsoShape(s) ==
  /\ Len(s) >= 19
  /\ \A i \in {1, 2, 3, 4, 6, 7, 9, 10, 12, 13, 15, 16, 18, 19} : IsDigit(s[i])
  /\ s[5] = "-" /\ s[8] = "-" /\ s[11] = "T" /\ s[14] = ":" /\ s[17] = ":"

(* C8: every non-absent result is YYYY-MM-DDTHH:MM:SS, followed by the     *)
(* zone as sign, HH, ':' and MM exactly when the token ended in a sign and *)
(* four digits, and by nothing otherwise.                                  *)
C8_IsoShapeAndZone ==
  (TsDone /\ iso # None) =>
    LET s == Strip(token)
    IN  /\ IsoShape(iso)
        /\ EndsInZone(s) =>
             Slice(iso, 19, Len(iso)) =
               <<s[Len(s) - 4], s[Len(s) - 3], s[Len(s) - 2], ":",
                 s[Len(s) - 1], s[Len(s)]>>
        /\ ~EndsInZone(s) => Len(iso) = 19

(* a year-and-month token with a zone offset, normalized to the second *)
C8_Witness ==
  /\ TsDone /\ iso # None
  /\ Len(TsCore) = 6 /\ EndsInZone(Strip(token))
  /\ Len(iso) = 25

(* C9: the result is absent, and nothing is raised, for an empty or       *)
(* white-space token, for a token of fewer than 4 digits (a zone offset   *)
(* alone included) and for digit groups that are no calendar date or time *)
(* of day.                                                                *)
C9_AbsentNeverRaises ==
  TsDone =>
    /\ iso # ValueError
    /\ Strip(token) = <<>> => iso = None
    /\ Len(TsCore) < 4 => iso = None
    /\ (AllDigits(TsCore) /\ Len(TsCore) >= 4 /\ ~TsPartsValid) => iso = None

(* month 13 in an eight-digit date *)
C9_Witness ==
  /\ TsDone /\ AllDigits(TsCore) /\ Len(TsCore) >= 8
  /\ Num2(TsCore, 5) = 13
  /\ iso = None

-----------------------------------------------------------------------------
(* Properties of parse_name, checked under SpecName *)

NameDone == op = "parse_name"

(* component k (1-based) of the name field, absent when empty or missing *)
NameComponent(k) ==
  LET cs == Split(hl7_name, "^")
  IN  IF k <= Len(cs) /\ cs[k] # <<>> THEN cs[k] ELSE None

(* the display order: prefix, first, middle, last, suffix *)
DisplayOrder == <<5, 2, 3, 1, 4>>

RECURSIVE Spaced(_)
Spaced(ks) ==
  IF ks = <<>> THEN <<>>
  ELSE IF Len(ks) = 1 THEN NameComponent(ks[1])
  ELSE NameComponent(ks[1]) \o <<SP>> \o Spaced(Tail(ks))

NameSpaces(s) == Cardinality({i \in 1..Len(s) : s[i] = SP})

(* C10: parse_name returns (last, first, composed): last and first are     *)
(* components 1 and 2, absent when empty or missing; composed joins the    *)
(* present components in the order prefix, first, middle, last, suffix by  *)
(* single spaces, with no separator for a skipped component, and is absent *)
(* when no component is present.                                           *)
C10_NameComposition ==
  NameDone =>
    LET shown == SelectSeq(DisplayOrder, LAMBDA k : NameComponent(k) # None)
    IN  /\ name_out.last_name = NameComponent(1)
        /\ name_out.first_name = NameComponent(2)
        /\ shown = <<>> => name_out.full_name = None
        /\ shown # <<>> =>
             /\ name_out.full_name = Spaced(shown)
             /\ NameSpaces(name_out.full_name) = Len(shown) - 1
             /\ name_out.full_name[1] # SP
             /\ name_out.full_name[Len(name_out.full_name)] # SP

(* "Doe^John^^^Mr." gives ("Doe", "John", "Mr. John Doe") *)
C10_Witness ==
  /\ NameDone
  /\ hl7_name = <<"D", "o", "e", "^", "J", "o", "h", "n", "^", "^", "^", "M", "r", ".">>
  /\ name_out = [last_name  |-> <<"D", "o", "e">>,
                 first_name |-> <<"J", "o", "h", "n">>,
                 full_name  |-> <<"M", "r", ".", " ", "J", "o", "h", "n", " ",
                                  "D", "o", "e">>]

-----------------------------------------------------------------------------
(* Properties of parse_message, validate_siu_message, extract_appointment *)

(* an attribute that holds a non-empty text, or None *)
PopulatedOrAbsent(v) == v = None \/ (v \notin {IndexError, NotRun} /\ v # <<>>)

(* C1: extract_appointment never raises on a message that parse_message   *)
(* returned, whatever segments are missing, short or empty: the result is *)
(* an Appointment whose every attribute, and every attribute of its       *)
(* Patient and Provider, is a non-empty text or None.                     *)
C1_ExtractNeverRaises ==
  op = "extract_appointment" =>
    /\ ~IsRaised(result)
    /\ \A v \in Attributes(result) : PopulatedOrAbsent(v)

(* an Appointment returned for a message whose PID line is the tag alone *)
(* and whose SCH line holds empty fields only                            *)
C1_Witness ==
  /\ op = "extract_appointment"
  /\ {SCH, PID} \subseteq DOMAIN message.segments
  /\ Len(message.segments[PID][1]) = 1
  /\ message.segments[SCH][1][2] = <<>>
  /\ ~IsRaised(result)
  /\ result.appointment_id = None
  /\ result.patient # NoObj /\ result.patient.id = None

(* the first segment of a raw text: the stripped text up to its first *)
(* line break                                                         *)
FirstLine(text) ==
  LET s    == Strip(text)
      ends == SelectSeq(Indices(Len(s)), LAMBDA i : s[i] \in {CR, LF})
  IN  IF ends = <<>> THEN s ELSE SubSeq(s, 1, ends[1] - 1)

(* C2: parse_message raises InvalidMessageError, and returns no message, *)
(* whenever the raw text is empty or white space only, its first segment *)
(* does not begin with MSH, or its first segment is shorter than 4       *)
(* characters.                                                           *)
C2_StructuralError ==
  op = "parse_message" =>
    ( ( \/ Strip(raw) = <<>>
        \/ ~StartsWith(FirstLine(raw), MSH)
        \/ Len(FirstLine(raw)) < 4 )
      => (IsRaised(message) /\ message.raised = "InvalidMessageError") )

(* a raw text whose only segment is the three characters MSH was refused *)
C2_Witness ==
  /\ op = "parse_message"
  /\ FirstLine(raw) = MSH
  /\ IsRaised(message)

(* the message-type code of the header under the delimiters of the    *)
(* message: the whole field when it holds no component delimiter, its *)
(* first component otherwise                                          *)
MessageTypeCode(m) == Split(m.segments[MSH][1][9], m.delimiters.component)[1]

(* C3: for a parsed message whose header carries a message-type field, *)
(* validate_siu_message accepts exactly when the message-type code     *)
(* equals SIU, whatever the trigger event.                             *)
C3_AcceptsExactlySiu ==
  (op = "validate_siu_message" /\ Len(message.segments[MSH][1]) > 8) =>
    (~IsRaised(result) <=> MessageTypeCode(message) = SIU)

-----------------------------------------------------------------------------
(* Properties of split_messages and parse_file *)

(* parse_file has split the content: raw_messages, idx, appointments and *)
(* warnings are those of its loop                                        *)
InParseFile == op \in {"parse_file", "returned"}

(* the raw message parses, and is refused only for its message type *)
WrongTypeOnly(raw_message) ==
  /\ ~IsRaised(ParseMessage(raw_message))
  /\ IsRaised(ValidateSiuMessage(ParseMessage(raw_message)))
  /\ ValidateSiuMessage(ParseMessage(raw_message)).text = "Expected SIU message type"

(* a warning was reported for message number i *)
WarnedFor(i) == \E w \in 1..Len(warnings) : warnings[w] = i

(* C4: in parse_file a message refused only because its type is not SIU *)
(* is skipped without a warning, and a message that fails for any other *)
(* reason is reported as a warning before it is skipped.                *)
C4_OtherFailuresWarned ==
  InParseFile =>
    \A i \in 1..idx :
      IsRaised(ParseSiuMessage(raw_messages[i])) =>
        (WarnedFor(i) <=> ~WrongTypeOnly(raw_messages[i]))

(* the raw message parses and validates as SIU *)
IsSiu(raw_message) ==
  /\ ~IsRaised(ParseMessage(raw_message))
  /\ ~IsRaised(ValidateSiuMessage(ParseMessage(raw_message)))

(* one Appointment for each SIU message of msgs, in the order of msgs *)
AppointmentsOf(msgs) ==
  LET siu == SelectSeq(msgs, IsSiu)
  IN  [k \in 1..Len(siu) |-> ExtractAppointment(ParseMessage(siu[k]))]

(* C5: parse_file returns exactly one Appointment for each message that    *)
(* parses and validates as SIU, in input order; after every iteration the  *)
(* appointments are those of the messages handled so far, so a failing     *)
(* message neither stops the later ones nor changes the earlier results,   *)
(* and the loop ends only when every message was handled.                  *)
C5_OneAppointmentPerSiuMessage ==
  InParseFile =>
    /\ appointments = AppointmentsOf(SubSeq(raw_messages, 1, idx))
    /\ op = "returned" => idx = Len(raw_messages)

(* three messages, the second one failing, two different Appointments *)
(* returned                                                           *)
C5_Witness ==
  /\ op = "returned"
  /\ Len(raw_messages) = 3
  /\ ~IsSiu(raw_messages[2])
  /\ Len(appointments) = 2
  /\ appointments[1] # appointments[2]
  /\ appointments[2] = ExtractAppointment(ParseMessage(raw_messages[3]))

(* the non-blank lines of a text, stripped *)
NonBlankLines(text) ==
  LET all == SplitAt(text, <<0>> \o SelectSeq(Indices(Len(text)),
                                               LAMBDA i : text[i] \in {CR, LF})
                                 \o <<Len(text) + 1>>)
      stripped == [k \in 1..Len(all) |-> Strip(all[k])]
  IN  SelectSeq(stripped, LAMBDA l : l # <<>>)

(* the messages of a text: one for each line that begins with MSH, made *)
(* of the lines from it up to, not including, the next such line; the   *)
(* lines before the first one are in no message                         *)
MessagesFromHeaders(text) ==
  LET lines   == NonBlankLines(text)
      headers == SelectSeq(Indices(Len(lines)), LAMBDA i : StartsWith(lines[i], MSH))
      upto(k) == IF k < Len(headers) THEN headers[k + 1] - 1 ELSE Len(lines)
  IN  [k \in 1..Len(headers) |-> Join(SubSeq(lines, headers[k], upto(k)), <<CR>>)]

(* C6: split_messages starts a new message at every non-blank line that   *)
(* begins with MSH: every returned message has a header line as its first *)
(* line and nowhere else, holds the lines up to but excluding the next    *)
(* header line, and the non-blank lines before the first header line are  *)
(* in no returned message.                                                *)
C6_MessagesStartAtHeaders ==
  InParseFile => raw_messages = MessagesFromHeaders(content)

-----------------------------------------------------------------------------
(* Properties of the extraction rules *)

(* extract_appointment has returned an Appointment for the parsed message *)
Extracted == op = "extract_appointment" /\ ~IsRaised(result)

(* HL7 field n of the first segment of a type, empty when there is none *)
FieldOf(m, segment_type, n) ==
  IF segment_type \in DOMAIN m.segments /\ Len(FirstSegment(m, segment_type)) > n
    THEN FirstSegment(m, segment_type)[n + 1]
    ELSE <<>>

(* the components of HL7 field n under the component delimiter of m *)
ComponentsOf(m, segment_type, n) ==
  Split(FieldOf(m, segment_type, n), m.delimiters.component)

(* component k, counted from 1, of HL7 field n; empty when there is none *)
ComponentOf(m, segment_type, n, k) ==
  IF Len(ComponentsOf(m, segment_type, n)) >= k
    THEN ComponentsOf(m, segment_type, n)[k]
    ELSE <<>>

(* the normalized value of the first of the candidates, None without one *)
NormalizedFirst(candidates) ==
  IF candidates = <<>> THEN None ELSE ParseHl7Timestamp(candidates[1])

(* the datetime of the first candidate that holds a value: SCH 11.4, then *)
(* SCH 2.4, then the first of the given components of SCH 2               *)
DatetimeByPriority(m, dateLike) ==
  IF ComponentOf(m, SCH, 11, 4) # <<>>
    THEN ParseHl7Timestamp(ComponentOf(m, SCH, 11, 4))
  ELSE IF ComponentOf(m, SCH, 2, 4) # <<>>
    THEN ParseHl7Timestamp(ComponentOf(m, SCH, 2, 4))
  ELSE NormalizedFirst(dateLike)

(* C11 as stated: the appointment datetime is the normalized value of the *)
(* first candidate that holds a non-empty value, in the order SCH 11.4,   *)
(* SCH 2.4, the first component of SCH 2 of at least 8 characters.        *)
C11_AsStated ==
  Extracted =>
    result.appointment_datetime =
      DatetimeByPriority(message,
        SelectSeq(ComponentsOf(message, SCH, 2), LAMBDA c : Len(c) >= 8))

(* C11, amended: the third candidate is the first component of SCH 2 of   *)
(* at least 8 characters that normalizes to a timestamp; components that  *)
(* do not normalize are passed over. SCH 11.4 and SCH 2.4 are used as     *)
(* soon as they are non-empty, so with both present SCH 11.4 wins.        *)
C11_DatetimePrecedence ==
  Extracted =>
    result.appointment_datetime =
      DatetimeByPriority(message,
        SelectSeq(ComponentsOf(message, SCH, 2),
                  LAMBDA c : Len(c) >= 8 /\ ParseHl7Timestamp(c) # None))

(* SCH 11.4 and SCH 2.4 both normalize, to different values, and the *)
(* result is that of SCH 11.4                                        *)
C11_Witness ==
  /\ Extracted
  /\ ParseHl7Timestamp(ComponentOf(message, SCH, 11, 4)) # None
  /\ ParseHl7Timestamp(ComponentOf(message, SCH, 2, 4)) # None
  /\ ParseHl7Timestamp(ComponentOf(message, SCH, 2, 4))
       # ParseHl7Timestamp(ComponentOf(message, SCH, 11, 4))
  /\ result.appointment_datetime = ParseHl7Timestamp(ComponentOf(message, SCH, 11, 4))

(* the first non-empty of PV1 3.1, SCH 11.3 and SCH 4.3, None without one *)
LocationByPriority(m) ==
  IF ComponentOf(m, PV1, 3, 1) # <<>> THEN ComponentOf(m, PV1, 3, 1)
  ELSE IF ComponentOf(m, SCH, 11, 3) # <<>> THEN ComponentOf(m, SCH, 11, 3)
  ELSE IF ComponentOf(m, SCH, 4, 3) # <<>> THEN ComponentOf(m, SCH, 4, 3)
  ELSE None

(* C12: the location of the Appointment is PV1 3.1 whenever the first PV1 *)
(* segment holds a non-empty value there, with or without an SCH segment; *)
(* otherwise SCH 11.3 if non-empty, otherwise SCH 4.3 if non-empty,       *)
(* otherwise None. The PV1 value replaces the SCH one whole.              *)
C12_LocationPrecedence ==
  Extracted => result.location = LocationByPriority(message)

(* PV1 3.1 and SCH 11.3 both hold a value, and the location is PV1 3.1 *)
C12_Witness ==
  /\ Extracted
  /\ ComponentOf(message, PV1, 3, 1) # <<>>
  /\ ComponentOf(message, SCH, 11, 3) # <<>>
  /\ ComponentOf(message, SCH, 11, 3) # ComponentOf(message, PV1, 3, 1)
  /\ result.location = ComponentOf(message, PV1, 3, 1)

(* the provider set from the SCH segment, before the PV1 segment is read *)
ProviderFromSch(m) ==
  IF SCH \in DOMAIN m.segments
    THEN SchProvider(FirstSegment(m, SCH), m.delimiters.component)
    ELSE NoObj

(* the identifier that PV1.7 supplies: component 5, else component 7 *)
Pv1SuppliedId(m) ==
  IF ComponentOf(m, PV1, 7, 5) # <<>> THEN ComponentOf(m, PV1, 7, 5)
  ELSE ComponentOf(m, PV1, 7, 7)

(* the last, first and title that PV1.7 supplies, in display order *)
Pv1SuppliedName(m) ==
  Present(<<ComponentOf(m, PV1, 7, 3), ComponentOf(m, PV1, 7, 2),
            ComponentOf(m, PV1, 7, 4)>>)

(* C13: when PV1 field 7 is non-empty the provider is merged with the one *)
(* set from SCH sub-field by sub-field: the identifier is that of PV1.7   *)
(* (component 5, else 7) only when it supplies one, the name is that of   *)
(* PV1.7 only when it supplies a last, first or title, and a sub-field    *)
(* that PV1.7 does not supply keeps the value set from SCH.               *)
C13_ProviderMerge ==
  (Extracted /\ FieldOf(message, PV1, 7) # <<>>) =>
    /\ result.provider # NoObj
    /\ result.provider.id =
         IF Pv1SuppliedId(message) # <<>> THEN Pv1SuppliedId(message)
         ELSE IF ProviderFromSch(message) # NoObj THEN ProviderFromSch(message).id
         ELSE None
    /\ result.provider.name =
         IF Pv1SuppliedName(message) # <<>>
           THEN Join(Pv1SuppliedName(message), <<SP>>)
         ELSE IF ProviderFromSch(message) # NoObj THEN ProviderFromSch(message).name
         ELSE None

(* PV1.7 supplies a name and no identifier; the identifier set from SCH *)
(* is kept beside the name of PV1.7                                     *)
C13_Witness ==
  /\ Extracted
  /\ Pv1SuppliedName(message) # <<>>
  /\ Pv1SuppliedId(message) = <<>>
  /\ ProviderFromSch(message) # NoObj
  /\ ProviderFromSch(message).id # None
  /\ result.provider.id = ProviderFromSch(message).id
  /\ result.provider.name # ProviderFromSch(message).name

-----------------------------------------------------------------------------
(* Properties of get_field *)

(* get_field was called with a field index counted from 1 and, when one *)
(* is given, a component index counted from 1                           *)
FieldAsked ==
  /\ op = "get_field"
  /\ field_index >= 1
  /\ component_index # <<>> => component_index[1] >= 1

(* the field asked for is within the first segment of its type *)
FieldWithin ==
  /\ segment_type_arg \in DOMAIN message.segments
  /\ field_index < Len(FirstSegment(message, segment_type_arg))

(* the components of the field asked for *)
AskedComponents == ComponentsOf(message, segment_type_arg, field_index)

(* C14: get_field with a component index k counted from 1 returns the    *)
(* k-th component of the field under the component delimiter of the      *)
(* message: index 1 the first component, index n the last of n.          *)
C14_ComponentByPosition ==
  ( /\ FieldAsked /\ FieldWithin
    /\ component_index # <<>>
    /\ FieldOf(message, segment_type_arg, field_index) # <<>>
    /\ component_index[1] <= Len(AskedComponents) )
  => field_value = AskedComponents[component_index[1]]

(* C15: get_field returns None when the segment type is not in the       *)
(* message, the field index is past the end of the segment, the field is *)
(* the empty string, or the component index is past the number of        *)
(* components of the field.                                              *)
C15_AbsentIsNone ==
  ( /\ FieldAsked
    /\ \/ ~FieldWithin
       \/ FieldOf(message, segment_type_arg, field_index) = <<>>
       \/ component_index # <<>> /\ component_index[1] > Len(AskedComponents) )
  => field_value = None

-----------------------------------------------------------------------------
(* Properties of the parsed message *)

(* parse_message has returned an HL7Message *)
Parsed == op = "parse_message" /\ ~IsRaised(message)

(* the encoding characters of a header: those between the field delimiter *)
(* that follows the tag and the next field delimiter, or the end          *)
EncodingChars(header) ==
  LET rest == SubSeq(header, 5, Len(header))
      ends == SelectSeq(Indices(Len(rest)), LAMBDA i : rest[i] = header[4])
  IN  IF ends = <<>> THEN rest ELSE SubSeq(rest, 1, ends[1] - 1)

(* the delimiters that a header declares: its four encoding characters   *)
(* in the order component, repetition, escape, subcomponent, or all four *)
(* defaults when it holds fewer than four                                *)
DeclaredDelimiters(header) ==
  IF Len(EncodingChars(header)) >= 4
    THEN [field        |-> header[4],
          component    |-> EncodingChars(header)[1],
          repetition   |-> EncodingChars(header)[2],
          escape       |-> EncodingChars(header)[3],
          subcomponent |-> EncodingChars(header)[4]]
    ELSE [field |-> header[4], component |-> "^", repetition |-> "~",
          escape |-> "\\", subcomponent |-> "&"]

(* C16: parse_message takes the field delimiter from the character after  *)
(* the header tag; with four encoding characters after it (a header that  *)
(* begins MSH|#~\&|) the component, repetition, escape and subcomponent   *)
(* delimiters are those four in that order, and with fewer than four all  *)
(* four keep their defaults.                                              *)
C16_DelimitersFromHeader ==
  Parsed => message.delimiters = DeclaredDelimiters(FirstLine(raw))

(* the non-empty lines of the stripped raw text, in order *)
LinesOf(text) ==
  LET s    == Strip(text)
      ends == SelectSeq(Indices(Len(s)), LAMBDA i : s[i] \in {CR, LF})
  IN  SelectSeq(SplitAt(s, <<0>> \o ends \o <<Len(s) + 1>>), LAMBDA l : l # <<>>)

(* the first 3 characters of a line *)
Prefix(line) == SubSeq(line, 1, IF Len(line) < 3 THEN Len(line) ELSE 3)

(* the lines with a given prefix, in order *)
LinesWith(lines, key) == SelectSeq(lines, LAMBDA l : Prefix(l) = key)

(* each non-empty line contributes one field list under its prefix, in *)
(* arrival order: the line split on the field delimiter                *)
OneFieldListPerLine ==
  LET lines == LinesOf(raw)
  IN  /\ DOMAIN message.segments = { Prefix(lines[i]) : i \in 1..Len(lines) }
      /\ \A key \in DOMAIN message.segments :
           LET mine == LinesWith(lines, key)
           IN  message.segments[key] =
                 [k \in 1..Len(mine) |-> Split(mine[k], message.delimiters.field)]

(* the first 3 characters of the line hold no field delimiter and are *)
(* followed by the field delimiter or by nothing                      *)
TagDelimited(line, fd) ==
  /\ \A i \in 1..Len(Prefix(line)) : line[i] # fd
  /\ Len(line) > 3 => line[4] = fd

(* C17 as stated: each non-empty line contributes exactly one field list *)
(* under its 3-character prefix, in arrival order, and element 0 of      *)
(* every field list equals its key.                                      *)
C17_AsStated ==
  Parsed =>
    /\ OneFieldListPerLine
    /\ \A key \in DOMAIN message.segments :
         \A k \in 1..Len(message.segments[key]) : message.segments[key][k][1] = key

(* C17, amended: each non-empty line contributes exactly one field list *)
(* under its 3-character prefix, in arrival order; element 0 of the     *)
(* field list equals the key for every line whose tag is followed by    *)
(* the field delimiter or by nothing. For other lines element 0 is the  *)
(* text before the first field delimiter.                               *)
C17_FieldListPerLine ==
  Parsed =>
    /\ OneFieldListPerLine
    /\ \A key \in DOMAIN message.segments :
         LET mine == LinesWith(LinesOf(raw), key)
         IN  \A k \in 1..Len(message.segments[key]) :
               TagDelimited(mine[k], message.delimiters.field)
                 => message.segments[key][k][1] = key

(* two lines of one type, with another line between them, are stored *)
(* under their tag in the order they arrived                         *)
C17_Witness ==
  /\ Parsed
  /\ {SCH, PID} \subseteq DOMAIN message.segments
  /\ Len(message.segments[PID]) = 2
  /\ message.segments[PID][1][2] = <<"1">>
  /\ message.segments[PID][2][2] = <<"2">>
  /\ message.segments[PID][2][1] = PID

-----------------------------------------------------------------------------
(* Properties of the Patient and of the attributes *)

(* the value of a field that is not empty, None for an empty one *)
ValueOrNone(v) == IF v = <<>> THEN None ELSE v

(* C18: a Patient is attached exactly when the message has a PID segment; *)
(* each of id (PID 3), last and first name (PID 5, as parse_name splits   *)
(* it), date of birth (PID 7, normalized) and gender (PID 8) comes from   *)
(* its own field alone, and is None when that field is empty or missing,  *)
(* so a PID with nothing in it gives a Patient with every attribute None. *)
C18_PatientFromPid ==
  Extracted =>
    /\ result.patient # NoObj <=> PID \in DOMAIN message.segments
    /\ PID \in DOMAIN message.segments =>
         /\ result.patient.id = ValueOrNone(FieldOf(message, PID, 3))
         /\ result.patient.last_name = ParseName(FieldOf(message, PID, 5)).last_name
         /\ result.patient.first_name = ParseName(FieldOf(message, PID, 5)).first_name
         /\ result.patient.dob =
              IF FieldOf(message, PID, 7) = <<>> THEN None
              ELSE ParseHl7Timestamp(FieldOf(message, PID, 7))
         /\ result.patient.gender = ValueOrNone(FieldOf(message, PID, 8))

(* a PID segment of empty fields only: a Patient is attached, with every *)
(* attribute None                                                        *)
C18_Witness ==
  /\ Extracted
  /\ PID \in DOMAIN message.segments
  /\ Len(FirstSegment(message, PID)) > 8
  /\ \A n \in 1..8 : FieldOf(message, PID, n) = <<>>
  /\ result.patient =
       [id |-> None, first_name |-> None, last_name |-> None, dob |-> None,
        gender |-> None]

(* an Appointment was returned by extract_appointment or parse_siu_message *)
AppointmentReturned ==
  op \in {"extract_appointment", "parse_siu_message"} /\ ~IsRaised(result)

(* C19: no attribute of a returned Appointment, of its Patient or of its *)
(* Provider is the empty string: each is None or a non-empty string.     *)
C19_NoEmptyAttribute ==
  AppointmentReturned =>
    /\ <<>> \notin {result.appointment_id, result.appointment_datetime,
                    result.reason, result.location}
    /\ result.patient # NoObj =>
         <<>> \notin {result.patient.id, result.patient.first_name,
                      result.patient.last_name, result.patient.dob,
                      result.patient.gender}
    /\ result.provider # NoObj =>
         <<>> \notin {result.provider.id, result.provider.name}

(* fields that are present with empty components only: SCH 11 gives no *)
(* datetime, SCH 5 gives a Provider without id or name                  *)
C19_Witness ==
  /\ Extracted
  /\ FieldOf(message, SCH, 11) # <<>>
  /\ ComponentOf(message, SCH, 11, 4) = <<>>
  /\ FieldOf(message, SCH, 2) = <<>>
  /\ FieldOf(message, SCH, 5) # <<>>
  /\ result.appointment_datetime = None
  /\ result.provider = [id |-> None, name |-> None]

-----------------------------------------------------------------------------
(* Properties of calls that interleave *)

-----------------------------------------------------------------------------
(* Properties of repeated segments *)

(* the lines of a text without the second and later lines of each of the *)
(* types SCH, PID and PV1, a line's type being its first 3 characters    *)
FirstOccurrences(text) ==
  LET lines == LinesOf(text)
  IN  SelectSeq([i \in 1..Len(lines) |->
                   IF /\ Prefix(lines[i]) \in {SCH, PID, PV1}
                      /\ \E j \in 1..(i - 1) : Prefix(lines[j]) = Prefix(lines[i])
                     THEN NotRun ELSE lines[i]],
                LAMBDA l : l # NotRun)

(* the messages of OccurMessages that differ from the text only in their *)
(* second and later SCH, PID and PV1 lines                               *)
SameFirstOccurrences(text) ==
  LET mine == FirstOccurrences(text)
  IN  { r \in OccurMessages : FirstOccurrences(r) = mine }

(* every line of type key is kept, in arrival order *)
OccurrencesRetained(key) ==
  LET mine == LinesWith(LinesOf(raw), key)
  IN  /\ Len(mine) > 0 => key \in DOMAIN message.segments
      /\ key \in DOMAIN message.segments =>
           message.segments[key] =
             [k \in 1..Len(mine) |-> Split(mine[k], message.delimiters.field)]

(* C21: only the first SCH, PID and PV1 segments are consulted: two       *)
(* messages that differ only in their second and later segments of a type *)
(* yield identical Appointments from extract_appointment and from         *)
(* parse_siu_message, while the segment map of parse_message holds every  *)
(* segment of the type in arrival order                                   *)
C21_FirstOccurrenceOnly ==
  /\ Parsed => \A key \in {SCH, PID, PV1} : OccurrencesRetained(key)
  /\ (Extracted /\ raw \in OccurMessages) =>
       \A r \in SameFirstOccurrences(raw) : ExtractAppointment(ParseMessage(r)) = result
  /\ (op = "parse_siu_message" /\ raw \in OccurMessages) =>
       \A r \in SameFirstOccurrences(raw) : ParseSiuMessage(r) = result

(* a message with two PID, two SCH and two PV1 segments that differ, whose *)
(* Appointment is the one of its first segments, and other messages with   *)
(* the same first segments                                                 *)
C21_Witness ==
  /\ Extracted
  /\ raw \in OccurMessages
  /\ \A key \in {SCH, PID, PV1} :
       /\ key \in DOMAIN message.segments
       /\ Len(message.segments[key]) = 2
       /\ message.segments[key][1] # message.segments[key][2]
  /\ result.patient.id = <<"P", "1">>
  /\ result.location = <<"O", "P", "D">>
  /\ Cardinality(SameFirstOccurrences(raw)) > 2

-----------------------------------------------------------------------------
(* Properties of the Provider *)

(* C22: whenever extract_appointment attaches a Provider to the           *)
(* Appointment, at least one of the provider's identifier and name is     *)
(* present: a candidate field (SCH 16, SCH 5 or PV1 7) that is not empty  *)
(* but yields neither an identifier nor a name part leaves the provider   *)
(* absent                                                                 *)
C22_ProviderHasIdOrName ==
  (Extracted /\ result.provider # NoObj) =>
    (result.provider.id # None \/ result.provider.name # None)

=============================================================================
